---- MODULE Spec2Model ----
(***************************************************************************)
(* Model of ddpg_gym_pendulum.py: the top-level script (environment        *)
(* construction with its DeprecatedEnv fallback, the construction steps in *)
(* program order, the agent configuration dictionary), the training run    *)
(* the script configures, and the Actor / Critic forward passes.           *)
(***************************************************************************)
EXTENDS Integers, Sequences, FiniteSets, TLC

VARIABLES
  pc,          \* script: label of the next statement to execute
  registry,    \* script: gym.envs.registry.all(), a sequence of identifiers
  made,        \* script: identifiers passed to gym.make so far, in order
  env_id,      \* script: the variable env_id of the except handler
  trace,       \* script: statements that completed, in completion order
  errors,      \* script: exceptions raised so far
  heap,        \* script: the dictionaries reachable from DDPG_DEFAULT_CONFIG and cfg_ddpg
  cfg_ddpg,    \* script: the dictionary the name cfg_ddpg is bound to
  timestep,    \* training: timesteps completed by trainer.train()
  phase,       \* training: position inside the current timestep
  memory_index, \* training: next row of the replay memory to write
  filled,      \* training: whether the replay memory has wrapped around
  overwritten, \* training: stored transitions that were overwritten
  sampled,     \* training: the latest batch request, <<timestep, rows available>>
  wrote,       \* training: what the latest post-interaction wrote
  log_writes,  \* training: tracking-data writes so far
  checkpoint_writes, \* training: checkpoint writes so far
  role,        \* networks: the model under observation, "policy" or "critic"
  self,        \* networks: the module's attributes (its layers' weights and biases)
  inputs,      \* networks: the batch compute is called with
  updates,     \* networks: parameter updates made by the training algorithm
  last,        \* networks: the latest compute call, <<>> before the first
  first        \* networks: the first compute call, <<>> before it

script_vars == <<pc, registry, made, env_id, trace, errors, heap, cfg_ddpg>>

train_vars == <<timestep, phase, memory_index, filled, overwritten, sampled, wrote,
                log_writes, checkpoint_writes>>

net_vars == <<role, self, inputs, updates, last, first>>

vars == <<script_vars, train_vars, net_vars>>

(***************************************************************************)
(* Environment identifiers, as character sequences (str.startswith).       *)
(***************************************************************************)
PendulumPrefix == <<"P","e","n","d","u","l","u","m","-","v">>
PendulumV0 == PendulumPrefix \o <<"0">>
PendulumV1 == PendulumPrefix \o <<"1">>
PendulumV2 == PendulumPrefix \o <<"2">>
CartPoleV1 == <<"C","a","r","t","P","o","l","e","-","v","1">>
EnvIds == {PendulumV0, PendulumV1, PendulumV2, CartPoleV1}

\* Largest number of registered environments considered.
MaxRegistry == 2

Range(s) == {s[i] : i \in DOMAIN s}

\* the registries considered: up to MaxRegistry distinct identifiers, in any order
Registries ==
  UNION { {s \in [1..n -> EnvIds] : Cardinality(Range(s)) = n} : n \in 0..MaxRegistry }

\* str.startswith
startswith(s, prefix) ==
  /\ Len(s) >= Len(prefix)
  /\ SubSeq(s, 1, Len(prefix)) = prefix

IsPendulum(id) == startswith(id, PendulumPrefix)

\* a comprehension without its filter
CandidatesUnfiltered(reg) == reg

\* [spec.id for spec in gym.envs.registry.all() if spec.id.startswith("Pendulum-v")]
Candidates(reg) == SelectSeq(reg, IsPendulum)

\* the subscript [-1] in place of [0]
PickLast(list) == list[Len(list)]

\* the subscript [0] of the list comprehension
Pick(list) == list[1]

\* a bare except in place of except gym.error.DeprecatedEnv
CaughtAny(kind) == TRUE

\* except gym.error.DeprecatedEnv: the exception kinds the handler catches
Caught(kind) == kind = "DeprecatedEnv"

\* what the first gym.make call may do: return, or raise one of these
MakeErrors == {"DeprecatedEnv", "Error"}

(***************************************************************************)
(* The statements of the script in program order.                          *)
(***************************************************************************)
\* the statements with the replay memory created after the models are initialised
ScriptMemoryLate ==
  << "make", "wrap",
     "policy", "target_policy", "critic", "target_critic",
     "init_policy", "init_target_policy", "init_critic", "init_target_critic",
     "memory",
     "copy", "noise", "options", "experiment",
     "agent", "trainer", "train" >>

Script ==
  << "make", "wrap", "memory",
     "policy", "target_policy", "critic", "target_critic",
     "init_policy", "init_target_policy", "init_critic", "init_target_critic",
     "copy", "noise", "options", "experiment",
     "agent", "trainer", "train" >>

IndexOf(l) == CHOOSE i \in DOMAIN Script : Script[i] = l

After(l) == IF IndexOf(l) = Len(Script) THEN "done" ELSE Script[IndexOf(l) + 1]

(***************************************************************************)
(* Dictionaries.  A value is <<"val", v>> or a reference <<"ref", a>> to   *)
(* another dictionary of the heap.                                         *)
(***************************************************************************)
DefaultHeap ==
  [a \in {"DDPG_DEFAULT_CONFIG", "exploration", "experiment"} |->
     CASE a = "DDPG_DEFAULT_CONFIG" ->
            [k \in {"exploration", "experiment", "discount_factor", "batch_size",
                    "random_timesteps", "learning_starts"} |->
               IF k \in {"exploration", "experiment"}
               THEN <<"ref", k>> ELSE <<"val", "default">>]
       [] a = "exploration" -> [k \in {"noise"} |-> <<"val", "default">>]
       [] a = "experiment" ->
            [k \in {"write_interval", "checkpoint_interval"} |-> <<"val", "default">>]]

\* dict.copy(): a new dictionary with the same items (references are shared)
DictCopy(h, a, new) == [b \in DOMAIN h \cup {new} |-> IF b = new THEN h[a] ELSE h[b]]

\* d[k] = v
SetItem(h, a, k, v) == [h EXCEPT ![a] = [j \in DOMAIN h[a] \cup {k} |->
                                            IF j = k THEN <<"val", v>> ELSE h[a][j]]]

\* d[k1][k2] = v
SetNested(h, a, k1, k2, v) == SetItem(h, h[a][k1][2], k2, v)

\* the training run has not started
TrainIdle ==
  /\ timestep = 0
  /\ phase = "idle"
  /\ memory_index = 0
  /\ filled = FALSE
  /\ overwritten = 0
  /\ sampled = <<0, 0>>
  /\ wrote = [at |-> 0, log |-> FALSE, checkpoint |-> FALSE]
  /\ log_writes = 0
  /\ checkpoint_writes = 0

\* no model is under observation
NetIdle ==
  /\ role = "none"
  /\ self = <<>>
  /\ inputs = <<>>
  /\ updates = 0
  /\ last = <<>>
  /\ first = <<>>

(***************************************************************************)
(* Script actions.                                                         *)
(***************************************************************************)
ScriptInit ==
  /\ pc = "make"
  /\ registry \in Registries
  /\ made = <<>>
  /\ env_id = <<>>
  /\ trace = <<>>
  /\ errors = <<>>
  /\ heap = DefaultHeap
  /\ cfg_ddpg = "unbound"
  /\ TrainIdle
  /\ NetIdle

Succeed(l) ==
  /\ trace' = Append(trace, l)
  /\ pc' = After(l)
  /\ errors' = errors

Raise(l, kind, next) ==
  /\ errors' = Append(errors, [at |-> l, kind |-> kind, done |-> Len(trace)])
  /\ pc' = next
  /\ trace' = trace

\* a call into the library with no handler around it: returns or raises
Call(l) ==
  /\ pc = l
  /\ \/ Succeed(l)
     \/ Raise(l, "Error", "crashed")

\* line 50: env = gym.make("Pendulum-v1") inside try
MakeEnv ==
  /\ pc = "make"
  /\ made' = Append(made, PendulumV1)
  /\ \/ Succeed("make")
     \/ \E kind \in MakeErrors :
          Raise("make", kind, IF Caught(kind) THEN "handler" ELSE "crashed")
  /\ UNCHANGED <<registry, env_id, heap, cfg_ddpg>>
  /\ UNCHANGED <<train_vars, net_vars>>

\* lines 52-53: the registry search of the handler
Handler ==
  /\ pc = "handler"
  /\ IF Candidates(registry) = <<>>
     THEN /\ Raise("handler", "IndexError", "crashed")
          /\ env_id' = env_id
     ELSE /\ env_id' = Pick(Candidates(registry))
          /\ pc' = "retry"
          /\ UNCHANGED <<trace, errors>>
  /\ UNCHANGED <<registry, made, heap, cfg_ddpg>>
  /\ UNCHANGED <<train_vars, net_vars>>

\* line 54: env = gym.make(env_id) inside the handler
RetryMake ==
  /\ pc = "retry"
  /\ made' = Append(made, env_id)
  /\ \/ Succeed("make")
     \/ \E kind \in MakeErrors : Raise("retry", kind, "crashed")
  /\ UNCHANGED <<registry, env_id, heap, cfg_ddpg>>
  /\ UNCHANGED <<train_vars, net_vars>>

\* line 55
WrapEnv == Call("wrap") /\ UNCHANGED <<registry, made, env_id, heap, cfg_ddpg>>
  /\ UNCHANGED <<train_vars, net_vars>>

\* line 60
MakeMemory == Call("memory") /\ UNCHANGED <<registry, made, env_id, heap, cfg_ddpg>>
  /\ UNCHANGED <<train_vars, net_vars>>

\* lines 66-69
MakeModel ==
  /\ \E l \in {"policy", "target_policy", "critic", "target_critic"} : Call(l)
  /\ UNCHANGED <<registry, made, env_id, heap, cfg_ddpg>>
  /\ UNCHANGED <<train_vars, net_vars>>

\* lines 72-73
InitParameters ==
  /\ \E l \in {"init_policy", "init_target_policy", "init_critic", "init_target_critic"} :
       Call(l)
  /\ UNCHANGED <<registry, made, env_id, heap, cfg_ddpg>>
  /\ UNCHANGED <<train_vars, net_vars>>

\* line 78
CopyConfig ==
  /\ pc = "copy"
  /\ Succeed("copy")
  /\ heap' = DictCopy(heap, "DDPG_DEFAULT_CONFIG", "cfg_ddpg")
  /\ cfg_ddpg' = "cfg_ddpg"
  /\ UNCHANGED <<registry, made, env_id>>
  /\ UNCHANGED <<train_vars, net_vars>>

\* line 79
SetNoise ==
  /\ pc = "noise"
  /\ \/ /\ Succeed("noise")
        /\ heap' = SetNested(heap, cfg_ddpg, "exploration", "noise", "OrnsteinUhlenbeckNoise")
     \/ /\ Raise("noise", "Error", "crashed")
        /\ heap' = heap
  /\ UNCHANGED <<registry, made, env_id, cfg_ddpg>>
  /\ UNCHANGED <<train_vars, net_vars>>

\* lines 80-83
SetOptions ==
  /\ pc = "options"
  /\ Succeed("options")
  /\ heap' = SetItem(SetItem(SetItem(SetItem(heap,
                cfg_ddpg, "discount_factor", "0.98"),
                cfg_ddpg, "batch_size", "100"),
                cfg_ddpg, "random_timesteps", "1000"),
                cfg_ddpg, "learning_starts", "1000")
  /\ UNCHANGED <<registry, made, env_id, cfg_ddpg>>
  /\ UNCHANGED <<train_vars, net_vars>>

\* lines 85-86
SetExperiment ==
  /\ pc = "experiment"
  /\ Succeed("experiment")
  /\ heap' = SetNested(SetNested(heap,
                cfg_ddpg, "experiment", "write_interval", "75"),
                cfg_ddpg, "experiment", "checkpoint_interval", "750")
  /\ UNCHANGED <<registry, made, env_id, cfg_ddpg>>
  /\ UNCHANGED <<train_vars, net_vars>>

\* lines 88-93
MakeAgent == Call("agent") /\ UNCHANGED <<registry, made, env_id, heap, cfg_ddpg>>
  /\ UNCHANGED <<train_vars, net_vars>>

\* line 97
MakeTrainer == Call("trainer") /\ UNCHANGED <<registry, made, env_id, heap, cfg_ddpg>>
  /\ UNCHANGED <<train_vars, net_vars>>

\* line 100
Train == Call("train") /\ UNCHANGED <<registry, made, env_id, heap, cfg_ddpg>>
  /\ UNCHANGED <<train_vars, net_vars>>

ScriptNext ==
  \/ MakeEnv
  \/ Handler
  \/ RetryMake
  \/ WrapEnv
  \/ MakeMemory
  \/ MakeModel
  \/ InitParameters
  \/ CopyConfig
  \/ SetNoise
  \/ SetOptions
  \/ SetExperiment
  \/ MakeAgent
  \/ MakeTrainer
  \/ Train

ScriptSpec == ScriptInit /\ [][ScriptNext]_vars

(***************************************************************************)
(* Properties of the script.                                               *)
(***************************************************************************)
Deprecated == [at |-> "make", kind |-> "DeprecatedEnv", done |-> 0]

FirstAttemptDeprecated == errors # <<>> /\ errors[1] = Deprecated

NoPendulumRegistered == \A i \in DOMAIN registry : ~IsPendulum(registry[i])

\* C3: gym.make is called at most twice, first with "Pendulum-v1"; a second call
\* happens only after the first raised DeprecatedEnv, is made with the first
\* registered identifier that starts with "Pendulum-v", is made whenever such
\* an identifier exists, and an exception it raises ends the script.
RetryOnce ==
  /\ Len(made) <= 2
  /\ (Len(made) >= 1 => made[1] = PendulumV1)
  /\ (Len(made) = 2 =>
        /\ FirstAttemptDeprecated
        /\ \E i \in DOMAIN registry :
             /\ made[2] = registry[i]
             /\ IsPendulum(registry[i])
             /\ \A j \in 1..(i - 1) : ~IsPendulum(registry[j]))
  /\ (FirstAttemptDeprecated /\ ~NoPendulumRegistered /\ pc \notin {"handler", "retry"}
        => Len(made) = 2)
  /\ \A i \in DOMAIN errors :
       errors[i].at = "retry" => pc = "crashed" /\ i = Len(errors) /\ trace = <<>>

\* the retry was made with the second registered identifier, the first one
\* not being a Pendulum, and the script ran to its end
RetryOnceWitness ==
  /\ pc = "done"
  /\ Len(made) = 2
  /\ Len(registry) = 2
  /\ ~IsPendulum(registry[1])
  /\ made[2] = registry[2]

\* C4: an exception other than the first attempt's DeprecatedEnv is the last
\* thing that happens: the script has stopped, nothing completed after it was
\* raised, and after a first attempt that failed otherwise there was no
\* registry search and no second gym.make.
PropagatesUncaught ==
  \A i \in DOMAIN errors :
    errors[i] # Deprecated =>
      /\ pc = "crashed"
      /\ i = Len(errors)
      /\ Len(trace) = errors[i].done
      /\ (errors[i].at = "make" => Len(made) = 1 /\ env_id = <<>> /\ Len(errors) = 1)

\* the first gym.make raised an error that is not DeprecatedEnv
PropagatesUncaughtWitness ==
  /\ Len(errors) = 1
  /\ errors[1].at = "make"
  /\ errors[1].kind = "Error"
  /\ pc = "crashed"

\* the groups (a)..(g) of the statements
Group(l) ==
  CASE l \in {"make", "wrap"} -> "a"
    [] l \in {"policy", "target_policy", "critic", "target_critic"} -> "b"
    [] l \in {"init_policy", "init_target_policy", "init_critic", "init_target_critic"} -> "c"
    [] l = "memory" -> "d"
    [] l \in {"copy", "noise", "options", "experiment", "agent"} -> "e"
    [] l = "trainer" -> "f"
    [] l = "train" -> "g"

Position(order, g) == CHOOSE i \in DOMAIN order : order[i] = g

InOrder(order) ==
  \A i, j \in DOMAIN trace :
    i < j => Position(order, Group(trace[i])) <= Position(order, Group(trace[j]))

AllStatements ==
  {"make", "wrap", "memory", "policy", "target_policy", "critic", "target_critic",
   "init_policy", "init_target_policy", "init_critic", "init_target_critic",
   "copy", "noise", "options", "experiment", "agent", "trainer", "train"}

EachOnceTrainLast ==
  /\ \A i, j \in DOMAIN trace : i # j => trace[i] # trace[j]
  /\ \A i \in DOMAIN trace : trace[i] = "train" => i = Len(trace) /\ pc = "done"
  /\ (pc = "done" => Range(trace) = AllStatements /\ trace[Len(trace)] = "train")

\* C5 as stated: the steps complete in the order (a) (b) (c) (d) (e) (f) (g).
StepsInSpecOrder ==
  /\ InOrder(<<"a", "b", "c", "d", "e", "f", "g">>)
  /\ EachOnceTrainLast

\* C5 as amended: the steps complete in the order (a) (d) (b) (c) (e) (f) (g):
\* the replay memory is created before the models; every statement completes
\* once, and trainer.train is called once, last.
StepsInCodeOrder ==
  /\ InOrder(<<"a", "d", "b", "c", "e", "f", "g">>)
  /\ EachOnceTrainLast

StepsInCodeOrderWitness == pc = "done" /\ Len(trace) = Cardinality(AllStatements)

\* C8: after a DeprecatedEnv from the first attempt, with no registered
\* identifier starting with "Pendulum-v", the handler raises before a second
\* gym.make: one gym.make call in all, no statement completed, nothing configured.
NoCandidateEndsScript ==
  FirstAttemptDeprecated /\ NoPendulumRegistered =>
    /\ pc \in {"handler", "crashed"}
    /\ Len(made) = 1
    /\ trace = <<>>
    /\ heap = DefaultHeap
    /\ cfg_ddpg = "unbound"
    /\ (pc = "crashed" =>
          Len(errors) = 2 /\ errors[2].at = "handler" /\ errors[2].kind = "IndexError")

NoCandidateEndsScriptWitness ==
  /\ FirstAttemptDeprecated
  /\ NoPendulumRegistered
  /\ registry # <<>>
  /\ pc = "crashed"

\* C9: every entry of DDPG_DEFAULT_CONFIG and of its nested "exploration" and
\* "experiment" dictionaries keeps the value it had before the script ran.
DefaultConfigUntouched ==
  \A a \in DOMAIN DefaultHeap : heap[a] = DefaultHeap[a]

(***************************************************************************)
(* The training run started by trainer.train() (line 100) with the values  *)
(* the script passes: one pass of the loop per timestep, in which the      *)
(* agent stores one transition per environment, then (post-interaction)    *)
(* updates from a sampled batch once learning has started, and writes      *)
(* checkpoints and tracking data when the count of completed timesteps is  *)
(* a multiple of the interval.                                             *)
(***************************************************************************)
\* a memory of half the size
memory_size_half == 20000 \div 2
memory_size == 20000

batch_size == 100

random_timesteps == 1000

learning_starts == 1000

\* an interval the checkpoint interval is no multiple of
write_interval_100 == 75 + 25
write_interval == 75

checkpoint_interval == 750

timesteps == 15000

\* rows of the replay memory in use (per environment)
MemoryLen == IF filled THEN memory_size ELSE memory_index

\* the dictionaries once lines 78-86 have run
ConfiguredHeap ==
  LET h0 == DictCopy(DefaultHeap, "DDPG_DEFAULT_CONFIG", "cfg_ddpg")
      h1 == SetNested(h0, "cfg_ddpg", "exploration", "noise", "OrnsteinUhlenbeckNoise")
      h2 == SetItem(SetItem(SetItem(SetItem(h1,
                "cfg_ddpg", "discount_factor", "0.98"),
                "cfg_ddpg", "batch_size", "100"),
                "cfg_ddpg", "random_timesteps", "1000"),
                "cfg_ddpg", "learning_starts", "1000")
  IN SetNested(SetNested(h2,
                "cfg_ddpg", "experiment", "write_interval", "75"),
                "cfg_ddpg", "experiment", "checkpoint_interval", "750")

\* the script has reached trainer.train()
ScriptIdle ==
  /\ pc = "train"
  /\ registry = <<>>
  /\ made = <<PendulumV1>>
  /\ env_id = <<>>
  /\ trace = SubSeq(Script, 1, Len(Script) - 1)
  /\ errors = <<>>
  /\ heap = ConfiguredHeap
  /\ cfg_ddpg = "cfg_ddpg"

TrainInit ==
  /\ ScriptIdle
  /\ NetIdle
  /\ timestep = 0
  /\ phase = "interact"
  /\ memory_index = 0
  /\ filled = FALSE
  /\ overwritten = 0
  /\ sampled = <<0, 0>>
  /\ wrote = [at |-> 0, log |-> FALSE, checkpoint |-> FALSE]
  /\ log_writes = 0
  /\ checkpoint_writes = 0

\* act, env.step, record_transition: one row of the memory is written
RecordTransition ==
  /\ phase = "interact"
  /\ timestep < timesteps
  /\ overwritten' = IF filled THEN overwritten + 1 ELSE overwritten
  /\ memory_index' = (memory_index + 1) % memory_size
  /\ filled' = (filled \/ memory_index + 1 >= memory_size)
  /\ phase' = "post"
  /\ UNCHANGED <<timestep, sampled, wrote, log_writes, checkpoint_writes>>
  /\ UNCHANGED <<script_vars, net_vars>>

\* post_interaction: the update (a batch is sampled), then the periodic writes
PostInteraction ==
  /\ phase = "post"
  /\ sampled' = IF timestep >= learning_starts THEN <<timestep, MemoryLen>> ELSE sampled
  /\ LET t == timestep + 1
         ckpt == t > 1 /\ checkpoint_interval > 0 /\ t % checkpoint_interval = 0
         log == t > 1 /\ write_interval > 0 /\ t % write_interval = 0
     IN /\ wrote' = [at |-> t, log |-> log, checkpoint |-> ckpt]
        /\ checkpoint_writes' = IF ckpt THEN checkpoint_writes + 1 ELSE checkpoint_writes
        /\ log_writes' = IF log THEN log_writes + 1 ELSE log_writes
        /\ timestep' = t
  /\ phase' = "interact"
  /\ UNCHANGED <<memory_index, filled, overwritten>>
  /\ UNCHANGED <<script_vars, net_vars>>

TrainNext ==
  \/ RecordTransition
  \/ PostInteraction

TrainSpec == TrainInit /\ [][TrainNext]_vars

(***************************************************************************)
(* Properties of the training run.                                         *)
(***************************************************************************)
\* C7: tracking data is written exactly when the count of completed timesteps
\* is a multiple of 75 and checkpoints exactly when it is a multiple of 750;
\* a timestep that writes a checkpoint also writes tracking data, and at each
\* checkpoint, as at the end of the 15000 timesteps, there have been 10
\* tracking-data writes per checkpoint.
WritesOnSchedule ==
  /\ (wrote.log <=> (wrote.at > 0 /\ wrote.at % 75 = 0))
  /\ (wrote.checkpoint <=> (wrote.at > 0 /\ wrote.at % 750 = 0))
  /\ (wrote.checkpoint => wrote.log)
  /\ (wrote.checkpoint => log_writes = 10 * checkpoint_writes)
  /\ (timestep = 15000 => log_writes = 200 /\ checkpoint_writes = 20)
  /\ timestep <= 15000

\* the run is over and its last timestep wrote both
WritesOnScheduleWitness ==
  /\ timestep = 15000
  /\ phase = "interact"
  /\ wrote.checkpoint
  /\ wrote.log
  /\ checkpoint_writes = 20

\* C10: no stored transition is overwritten and at most 20000 rows are in use
\* during the 15000 timesteps; a batch is requested only from timestep 1000 on,
\* when at least 100 distinct rows are stored.
MemoryNeverWraps ==
  /\ overwritten = 0
  /\ ~filled
  /\ MemoryLen <= 20000
  /\ MemoryLen = (IF phase = "post" THEN timestep + 1 ELSE timestep)
  /\ (sampled # <<0, 0>> => sampled[1] >= 1000 /\ sampled[2] >= 100)
  /\ (timestep > 1000 => sampled = <<timestep - 1, timestep>>)

\* the run is over; every timestep from 1000 on sampled a batch
MemoryNeverWrapsWitness ==
  /\ timestep = 15000
  /\ MemoryLen = 15000
  /\ sampled = <<14999, 15000>>

(***************************************************************************)
(* Floating-point values on the integer grid: the finite values            *)
(* -FMax..FMax, the two infinities and NaN.  A finite result beyond FMax   *)
(* overflows to an infinity, as float32 arithmetic does.                   *)
(***************************************************************************)
FMax == 100

PInf == FMax + 1
NInf == -(FMax + 1)
NaN == FMax + 2

IsNaN(a) == a = NaN
IsInf(a) == a = PInf \/ a = NInf
IsFinite(a) == ~IsNaN(a) /\ ~IsInf(a)

Sign(a) == IF a > 0 THEN 1 ELSE IF a < 0 THEN -1 ELSE 0

Round(n) == IF n > FMax THEN PInf ELSE IF n < -FMax THEN NInf ELSE n

FAdd(a, b) ==
  IF IsNaN(a) \/ IsNaN(b) THEN NaN
  ELSE IF IsInf(a) /\ IsInf(b) THEN (IF a = b THEN a ELSE NaN)
  ELSE IF IsInf(a) THEN a
  ELSE IF IsInf(b) THEN b
  ELSE Round(a + b)

FMul(a, b) ==
  IF IsNaN(a) \/ IsNaN(b) THEN NaN
  ELSE IF IsInf(a) \/ IsInf(b)
       THEN (IF a = 0 \/ b = 0 THEN NaN
             ELSE IF Sign(a) = Sign(b) THEN PInf ELSE NInf)
  ELSE Round(a * b)

\* F.relu: max(x, 0), NaN for NaN
relu(a) == IF IsNaN(a) THEN NaN ELSE IF a > 0 THEN a ELSE 0

\* the activation left out
tanh_identity(a) == a

\* torch.tanh rounded to the grid: 0 at 0, 1 and -1 elsewhere (|tanh x| > 0.76
\* for |x| >= 1, and tanh of an infinity is 1 or -1), NaN for NaN
tanh(a) == IF IsNaN(a) THEN NaN ELSE Sign(a)

(***************************************************************************)
(* Layers and the two models.                                              *)
(***************************************************************************)
\* env.observation_space and env.action_space: boxes, given by their bounds
observation_space == [low |-> <<-1>>, high |-> <<2>>]
action_space == [low |-> <<-2>>, high |-> <<2>>]

num_observations == Len(observation_space.low)
num_actions == Len(action_space.low)

\* widths of the two hidden layers (400 and 300 in the script)
Hidden1 == 2
Hidden2 == 2

\* nn.Linear(in_features, out_features) with every entry equal to v
Filled(in_features, out_features, v) ==
  [weight |-> [j \in 1..out_features |-> [i \in 1..in_features |-> v]],
   bias |-> [j \in 1..out_features |-> v]]

\* Actor.__init__ followed by init_parameters
NewActor(v) ==
  [linear_layer_1 |-> Filled(num_observations, Hidden1, v),
   linear_layer_2 |-> Filled(Hidden1, Hidden2, v),
   action_layer |-> Filled(Hidden2, num_actions, v)]

\* a final layer of two outputs
CriticOutTwo == 1 + 1

\* out_features of Critic.linear_layer_3
CriticOut == 1

\* Critic.__init__ followed by init_parameters
NewCritic(v) ==
  [linear_layer_1 |-> Filled(num_observations + num_actions, Hidden1, v),
   linear_layer_2 |-> Filled(Hidden1, Hidden2, v),
   linear_layer_3 |-> Filled(Hidden2, CriticOut, v)]

RECURSIVE DotTo(_, _, _)
DotTo(w, x, n) ==
  IF n = 0 THEN 0 ELSE FAdd(DotTo(w, x, n - 1), FMul(w[n], x[n]))

\* nn.Linear forward on one row: x W^T + b
Linear(layer, x) ==
  [j \in 1..Len(layer.bias) |-> FAdd(DotTo(layer.weight[j], x, Len(layer.weight[j])), layer.bias[j])]

\* F.relu on one row
ReluRow(x) == [i \in 1..Len(x) |-> relu(x[i])]

\* torch.cat([a, b], dim=1) of two batches
cat(a, b) == [n \in 1..Len(a) |-> a[n] \o b[n]]

ActorHidden(m, states) ==
  [n \in 1..Len(states) |->
     ReluRow(Linear(m.linear_layer_2, ReluRow(Linear(m.linear_layer_1, states[n]))))]

\* the argument of torch.tanh on line 31
ActorPre(m, in) ==
  LET x == ActorHidden(m, in.states)
  IN [n \in 1..Len(x) |-> Linear(m.action_layer, x[n])]

\* 2 * torch.tanh(.) on one row
TwiceTanhRow(x) == [i \in 1..Len(x) |-> FMul(2, tanh(x[i]))]

\* Actor.compute, lines 27-31: the returned tensor
ActorCompute(m, in) ==
  LET pre == ActorPre(m, in)
  IN [n \in 1..Len(pre) |-> TwiceTanhRow(pre[n])]

\* Critic.compute, lines 42-45: the returned tensor
CriticCompute(m, in) ==
  LET x0 == cat(in.states, in.taken_actions)
  IN [n \in 1..Len(x0) |->
        Linear(m.linear_layer_3,
               ReluRow(Linear(m.linear_layer_2,
                              ReluRow(Linear(m.linear_layer_1, x0[n])))))]

\* a forward pass that clamps the first layer's bias in place
SelfClamped(m) == [m EXCEPT !.linear_layer_1.bias = [j \in DOMAIN @ |-> 0]]

\* the module after compute returns: neither method assigns to self
SelfAfterCompute(m) == m

(***************************************************************************)
(* The models in use: compute is called on batches while the training     *)
(* algorithm overwrites parameters between calls.                          *)
(***************************************************************************)
\* largest batch
MaxBatch == 2

\* most parameter updates in one run
MaxUpdates == 1

\* values init_parameters leaves in the parameters
InitValues == {0, 1}

\* values an update writes
UpdateValues == {-1, FMax, NaN}

\* (observation, action) pairs of the two spaces' corners
Samples ==
  { [states |-> observation_space.low, taken_actions |-> action_space.high],
    [states |-> observation_space.high, taken_actions |-> action_space.low] }

Batches ==
  UNION { { [states |-> [n \in 1..N |-> b[n].states],
             taken_actions |-> [n \in 1..N |-> b[n].taken_actions]] :
            b \in [1..N -> Samples] } : N \in 1..MaxBatch }

NetInit ==
  /\ ScriptIdle
  /\ TrainIdle
  /\ role \in {"policy", "critic"}
  /\ \E v \in InitValues : self = IF role = "policy" THEN NewActor(v) ELSE NewCritic(v)
  /\ inputs \in Batches
  /\ updates = 0
  /\ last = <<>>
  /\ first = <<>>

\* model.compute(inputs, role)
Compute ==
  /\ last' = [self |-> self,
              out |-> IF role = "policy" THEN ActorCompute(self, inputs)
                                         ELSE CriticCompute(self, inputs),
              after |-> SelfAfterCompute(self)]
  /\ first' = IF first = <<>> THEN [self |-> self, out |-> last'.out] ELSE first
  /\ self' = SelfAfterCompute(self)
  /\ UNCHANGED <<role, inputs, updates>>
  /\ UNCHANGED <<script_vars, train_vars>>

\* the training algorithm overwrites one parameter tensor
Update ==
  /\ updates < MaxUpdates
  /\ updates' = updates + 1
  /\ \E l \in DOMAIN self, v \in UpdateValues :
       \/ self' = [self EXCEPT ![l].weight =
                     [j \in DOMAIN @ |-> [i \in DOMAIN @[j] |-> v]]]
       \/ self' = [self EXCEPT ![l].bias = [j \in DOMAIN @ |-> v]]
  /\ UNCHANGED <<role, inputs, last, first>>
  /\ UNCHANGED <<script_vars, train_vars>>

NetNext ==
  \/ Compute
  \/ Update

NetSpec == NetInit /\ [][NetNext]_vars

(***************************************************************************)
(* Properties of the two models.                                           *)
(***************************************************************************)
InRange(a, lo, hi) == ~IsNaN(a) /\ lo <= a /\ a <= hi

Called(r) == role = r /\ last # <<>>

OneRowPerSample(width) ==
  /\ Len(last.out) = Len(inputs.states)
  /\ \A n \in DOMAIN last.out : Len(last.out[n]) = width

\* C1 as stated: whatever the weights, every element of the Actor's output is
\* in [-2, 2].
ActorOutputBounded ==
  Called("policy") =>
    \A n \in DOMAIN last.out : \A j \in DOMAIN last.out[n] :
      InRange(last.out[n][j], -2, 2)

\* C1 as amended: every element of the Actor's output is in [-2, 2], also when
\* the argument of tanh is an infinity, unless that argument is NaN, and then
\* the element is NaN.
ActorOutputBoundedOrNaN ==
  Called("policy") =>
    /\ OneRowPerSample(num_actions)
    /\ \A n \in DOMAIN last.out : \A j \in DOMAIN last.out[n] :
         IF IsNaN(ActorPre(last.self, inputs)[n][j])
         THEN IsNaN(last.out[n][j])
         ELSE InRange(last.out[n][j], -2, 2)

\* the upper bound is attained, in one row from an argument of tanh that
\* overflowed to +infinity, in another from a finite argument above 2
ActorOutputBoundedWitness ==
  /\ Called("policy")
  /\ \E n \in DOMAIN last.out :
       last.out[n][1] = 2 /\ ActorPre(last.self, inputs)[n][1] = PInf
  /\ \E n \in DOMAIN last.out :
       last.out[n][1] = 2 /\ InRange(ActorPre(last.self, inputs)[n][1], 3, FMax)

Abs(a) == IF a < 0 THEN -a ELSE a

Max(S) == CHOOSE a \in S : \A b \in S : b <= a

RECURSIVE SumAbs(_, _)
SumAbs(w, n) == IF n = 0 THEN 0 ELSE SumAbs(w, n - 1) + Abs(w[n])

\* a bound on the magnitude of a layer's outputs, and of every partial sum
\* computed on the way, for inputs of magnitude at most mag (exact integers)
LayerMagnitude(layer, mag) ==
  Max({ SumAbs(layer.weight[j], Len(layer.weight[j])) * mag + Abs(layer.bias[j]) :
        j \in DOMAIN layer.bias })

ParamsFinite(m) ==
  \A l \in DOMAIN m :
    \A j \in DOMAIN m[l].bias :
      /\ IsFinite(m[l].bias[j])
      /\ \A i \in DOMAIN m[l].weight[j] : IsFinite(m[l].weight[j][i])

\* the bounds after the first, second and third layer of the Critic
CriticMagnitudes(m, row) ==
  LET m1 == LayerMagnitude(m.linear_layer_1, Max({Abs(row[i]) : i \in DOMAIN row}))
      m2 == LayerMagnitude(m.linear_layer_2, m1)
      m3 == LayerMagnitude(m.linear_layer_3, m2)
  IN <<m1, m2, m3>>

\* no value computed for the row can leave the finite range
NoOverflow(m, row) ==
  /\ ParamsFinite(m)
  /\ \A k \in 1..3 : CriticMagnitudes(m, row)[k] <= FMax

====
